---- MODULE Spec2Model ----
(***************************************************************************)
(* School Management API (main.py, schemas.py): the HTTP handlers over the *)
(* document store.  A stored document is a record of its fields plus the   *)
(* store-assigned _id; a collection is the sequence of its documents in    *)
(* insertion order.  Requests are served by the processes of Procs; a      *)
(* handler that makes one store call is one action, set_attendance and     *)
(* add_students_bulk are split at their store calls so that concurrent     *)
(* requests interleave there.                                              *)
(***************************************************************************)
EXTENDS Integers, Sequences, FiniteSets, TLC

VARIABLES db, store, nextId, files, pc, local, resp, created

vars == <<db, store, nextId, files, pc, local, resp, created>>

(* ------------------------------ bounds -------------------------------- *)
\* documents the store accepts in one run
MaxDocs == 2
\* entries of one bulk request
MaxBulk == 2

(* ------------------------------ values -------------------------------- *)
\* Python None / JSON null of an optional string
None == "null"

Procs == {"p1", "p2"}

Collections ==
  {"student", "note", "assignment", "worksheet", "circular", "event",
   "attendance", "upload"}

StudentIds == {"s1", "s2"}
Dates == {"d1", "d2"}
Statuses == {"present", "absent"}
ClassNames == {"6A", "7B"}
Subjects == {"math"}

\* schemas.py Student
Student ==
  [name : {"A"}, roll_no : {"1"}, class_name : ClassNames, section : {None}]

\* schemas.py Note
Note ==
  [subject : Subjects, title : {"t"}, content : {"c"}, class_name : {"6A"}]

\* schemas.py Assignment
Assignment ==
  [subject : Subjects, title : {"t"}, description : {"x"}, due_date : {"d1"},
   class_name : {"6A"}]

\* schemas.py Worksheet
Worksheet ==
  [subject : Subjects, title : {"t"}, description : {None}, class_name : {"6A"}]

\* schemas.py Circular
Circular == [title : {"t"}, message : {"m"}, audience : {"all"}]

\* schemas.py Event
Event == [title : {"t"}, date : {"d1"}, location : {None}, description : {None}]

\* schemas.py Upload
Upload ==
  [filename : {"f.txt"}, path : {"uploads/f.txt"}, uploaded_by : {"T"},
   subject : {None}, class_name : {None}]

\* main.py AttendanceSet
AttendanceSet == [student_id : StudentIds, date : Dates, status : Statuses]

\* main.py BulkStudents: students is a list of Student
RECURSIVE SeqsUpTo(_, _)
SeqsUpTo(S, n) ==
  IF n = 0 THEN {<<>>}
  ELSE LET shorter == SeqsUpTo(S, n - 1)
       IN shorter \cup {Append(s, e) : s \in {t \in shorter : Len(t) = n - 1}, e \in S}

BulkStudents == [students : SeqsUpTo(Student, MaxBulk)]

\* values of an optional query parameter: absent, empty, or a string
QueryClassNames == ClassNames \cup {None, ""}
QuerySubjects == Subjects \cup {None}

(* --------------------------- identifiers ------------------------------ *)
\* str(ObjectId): the string form of the n-th identifier the store assigns
ObjectIdStrings == <<"id1", "id2", "id3", "id4", "id5", "id6", "id7", "id8">>

ObjectIdStr(oid) == ObjectIdStrings[oid]

(* ------------------------- the document store ------------------------- *)
\* equality filter: every filter field is in the document with that value
Matches(d, filt) == \A k \in DOMAIN filt : k \in DOMAIN d /\ d[k] = filt[k]

\* db[coll].find(filt): the matching documents in storage order
Find(st, coll, filt) == SelectSeq(st[coll], LAMBDA d : Matches(d, filt))

\* db[coll].insert_one(doc): the store assigns _id = oid
InsertOne(st, coll, doc, oid) ==
  [st EXCEPT ![coll] = Append(@, [_id |-> oid] @@ doc)]

\* db[coll].update_one(filt, {"$set": setDoc}, upsert): one indivisible
\* store operation.  The first matching document gets the fields of setDoc;
\* without a match and with upsert, a document of the filter's fields and
\* setDoc is inserted under _id = oid.  upserted_id is <<>> for None.
UpdateOne(st, coll, filt, setDoc, upsert, oid) ==
  LET hits == {i \in 1..Len(st[coll]) : Matches(st[coll][i], filt)}
  IN IF hits # {}
     THEN LET i == CHOOSE j \in hits : \A h \in hits : j <= h
              old == st[coll][i]
              new == setDoc @@ old
          IN [store |-> [st EXCEPT ![coll][i] = new],
              matched_count |-> 1,
              modified_count |-> IF new = old THEN 0 ELSE 1,
              upserted_id |-> <<>>]
     ELSE IF upsert
          THEN [store |-> InsertOne(st, coll, setDoc @@ filt, oid),
                matched_count |-> 0,
                modified_count |-> 0,
                upserted_id |-> <<oid>>]
          ELSE [store |-> st,
                matched_count |-> 0,
                modified_count |-> 0,
                upserted_id |-> <<>>]

(* ----------------------------- attendance ----------------------------- *)
\* variant: the filter also pins the status
AttendanceFilt_WithStatus(payload) ==
  [student_id |-> payload.student_id, date |-> payload.date,
   status |-> payload.status]

\* variant: the filter leaves out the date
AttendanceFilt_StudentOnly(payload) == [student_id |-> payload.student_id]

\* filt = {"student_id": payload.student_id, "date": payload.date}
AttendanceFilt(payload) ==
  [student_id |-> payload.student_id, date |-> payload.date]

\* variant: the update writes a fixed status
AttendanceUpdate_Constant(payload) == [status |-> "present"]

\* {"$set": {"status": payload.status}}
AttendanceUpdate(payload) == [status |-> payload.status]

\* variant: update_one without upsert
AttendanceUpsert_Off == FALSE

\* upsert=True
AttendanceUpsert == TRUE

\* variant: the connection is not checked
DbIsNone_Unchecked == FALSE

\* if db is None
DbIsNone == db = None

\* JSONResponse(status_code=500, content={"error": "Database not available"})
DatabaseNotAvailable(payload) ==
  [op |-> "set_attendance", request |-> payload, status |-> 500,
   error |-> "Database not available"]

\* variant: modified reports the matched count
SetAttendanceResult_ModifiedIsMatched(payload, res) ==
  [op |-> "set_attendance", request |-> payload, status |-> 200,
   matched |-> res.matched_count,
   modified |-> res.matched_count,
   upserted_id |-> IF res.upserted_id # <<>>
                   THEN ObjectIdStr(res.upserted_id[1]) ELSE None]

\* {"matched": ..., "modified": ..., "upserted_id": str(id) if id else None}
SetAttendanceResult(payload, res) ==
  [op |-> "set_attendance", request |-> payload, status |-> 200,
   matched |-> res.matched_count,
   modified |-> res.modified_count,
   upserted_id |-> IF res.upserted_id # <<>>
                   THEN ObjectIdStr(res.upserted_id[1]) ELSE None]

Idle == [op |-> "idle"]

\* set_attendance up to its store call: build the filter, check db
SetAttendanceCall(p, payload) ==
  /\ pc[p] = "idle"
  /\ IF DbIsNone
     THEN /\ resp' = DatabaseNotAvailable(payload)
          /\ UNCHANGED <<pc, local>>
     ELSE /\ pc' = [pc EXCEPT ![p] = "upsert"]
          /\ local' = [local EXCEPT ![p] =
                         [op |-> "set_attendance", payload |-> payload,
                          filt |-> AttendanceFilt(payload)]]
          /\ UNCHANGED resp
  /\ UNCHANGED <<db, store, nextId, files, created>>

\* set_attendance's update_one and its response
SetAttendanceUpsert(p) ==
  /\ pc[p] = "upsert"
  /\ LET payload == local[p].payload
         res == UpdateOne(store, "attendance", local[p].filt,
                          AttendanceUpdate(payload), AttendanceUpsert, nextId)
     IN /\ res.upserted_id # <<>> => nextId <= MaxDocs
        /\ store' = res.store
        /\ nextId' = IF res.upserted_id # <<>> THEN nextId + 1 ELSE nextId
        /\ resp' = SetAttendanceResult(payload, res)
  /\ pc' = [pc EXCEPT ![p] = "idle"]
  /\ local' = [local EXCEPT ![p] = Idle]
  /\ UNCHANGED <<db, files, created>>

\* d["_id"] = str(d["_id"]) for every returned document
StrIds(docs) ==
  [i \in 1..Len(docs) |->
     IF "_id" \in DOMAIN docs[i]
     THEN [docs[i] EXCEPT !._id = ObjectIdStr(@)]
     ELSE docs[i]]

\* variant: the missing connection is not caught and the request fails
GetAttendanceNoDb_Raises(date_value) ==
  [op |-> "get_attendance", request |-> [date_value |-> date_value],
   status |-> 500, error |-> "Internal Server Error"]

\* if db is None: return []
GetAttendanceNoDb(date_value) ==
  [op |-> "get_attendance", request |-> [date_value |-> date_value],
   status |-> 200, docs |-> <<>>]

GetAttendanceResult(date_value) ==
  IF db = None
  THEN GetAttendanceNoDb(date_value)
  ELSE [op |-> "get_attendance", request |-> [date_value |-> date_value],
        status |-> 200,
        docs |-> StrIds(Find(store, "attendance", [date |-> date_value]))]

GetAttendance(date_value) ==
  /\ resp' = GetAttendanceResult(date_value)
  /\ UNCHANGED <<db, store, nextId, files, pc, local, created>>

(* ----------------------- document access layer ------------------------ *)
\* create_document fails with StorageUnavailable when no connection exists
CreateUnavailable == db = None

\* get_documents(coll, filt): the matching records, empty when the store is
\* unavailable
GetDocuments(coll, filt) ==
  IF db = None THEN <<>> ELSE Find(store, coll, filt)

\* an exception leaving a handler: the framework's 500 response
InternalServerError(op, request) ==
  [op |-> op, request |-> request, status |-> 500,
   error |-> "Internal Server Error"]

\* create_document(coll, record) returned the string of the new identifier
CreateDocumentOk(coll, record) ==
  /\ ~CreateUnavailable
  /\ nextId <= MaxDocs
  /\ store' = InsertOne(store, coll, record, nextId)
  /\ nextId' = nextId + 1

(* ------------------------- create/list routes ------------------------- *)
\* the routes that return {"_id": create_document(coll, body)}
CreateRoutes ==
  [student |-> Student, note |-> Note, assignment |-> Assignment,
   worksheet |-> Worksheet, circular |-> Circular, event |-> Event]

\* add_student, create_note, create_assignment, create_worksheet,
\* create_circular, create_event: the identifier create_document returns, or
\* the error response when create_document raises (no connection, or the
\* store does not take the insert)
CreateResource(coll, body) ==
  /\ \/ /\ CreateDocumentOk(coll, body)
        /\ resp' = [op |-> "create", coll |-> coll, request |-> body,
                    status |-> 200, _id |-> ObjectIdStr(nextId)]
        /\ created' = Append(created, [coll |-> coll, request |-> body,
                                       _id |-> ObjectIdStr(nextId)])
     \/ /\ resp' = InternalServerError("create", body)
        /\ UNCHANGED <<store, nextId, created>>
  /\ UNCHANGED <<db, files, pc, local>>

\* a query parameter is used only when it is truthy
Truthy(v) == v # None /\ v # ""

\* variant: the filter names the wrong field
ListStudentsFilt_WrongField(class_name) ==
  IF Truthy(class_name) THEN [name |-> class_name] ELSE <<>>

\* list_students: filt = {"class_name": class_name} if class_name else {}
ListStudentsFilt(class_name) ==
  IF Truthy(class_name) THEN [class_name |-> class_name] ELSE <<>>

\* get_notes, get_assignments, get_worksheets, list_uploads
ClassSubjectFilt(class_name, subject) ==
  (IF Truthy(class_name) THEN [class_name |-> class_name] ELSE <<>>)
  @@ (IF Truthy(subject) THEN [subject |-> subject] ELSE <<>>)

ListStudentsResult(class_name) ==
  [op |-> "list", coll |-> "student",
   request |-> [class_name |-> class_name], status |-> 200,
   docs |-> StrIds(GetDocuments("student", ListStudentsFilt(class_name)))]

ListStudents(class_name) ==
  /\ resp' = ListStudentsResult(class_name)
  /\ UNCHANGED <<db, store, nextId, files, pc, local, created>>

FilteredRoutes == {"note", "assignment", "worksheet", "upload"}

ListFilteredResult(coll, class_name, subject) ==
  [op |-> "list", coll |-> coll,
   request |-> [class_name |-> class_name, subject |-> subject],
   status |-> 200,
   docs |-> StrIds(GetDocuments(coll, ClassSubjectFilt(class_name, subject)))]

ListFiltered(coll, class_name, subject) ==
  /\ resp' = ListFilteredResult(coll, class_name, subject)
  /\ UNCHANGED <<db, store, nextId, files, pc, local, created>>

\* get_circulars, get_events: get_documents(coll) without a filter
UnfilteredRoutes == {"circular", "event"}

ListAllResult(coll) ==
  [op |-> "list", coll |-> coll, request |-> <<>>, status |-> 200,
   docs |-> StrIds(GetDocuments(coll, <<>>))]

ListAll(coll) ==
  /\ resp' = ListAllResult(coll)
  /\ UNCHANGED <<db, store, nextId, files, pc, local, created>>

(* --------------------------- bulk students ---------------------------- *)
\* variant: the new identifier goes to the front of the list
AppendId_Front(inserted_ids, id) == <<id>> \o inserted_ids

\* inserted_ids.append(create_document("student", s))
AppendId(inserted_ids, id) == Append(inserted_ids, id)

\* variant: a failing entry is skipped and the loop goes on
BulkStopsOnError_Skips == FALSE

\* the loop has no handler: a failing create_document ends the request
BulkStopsOnError == TRUE

\* add_students_bulk up to its first create_document
AddStudentsBulkCall(p, payload) ==
  /\ pc[p] = "idle"
  /\ IF payload.students = <<>>
     THEN /\ resp' = [op |-> "bulk", request |-> payload, status |-> 200,
                      inserted |-> <<>>]
          /\ UNCHANGED <<pc, local>>
     ELSE /\ pc' = [pc EXCEPT ![p] = "bulk"]
          /\ local' = [local EXCEPT ![p] =
                         [op |-> "bulk", payload |-> payload, i |-> 1,
                          inserted_ids |-> <<>>]]
          /\ UNCHANGED resp
  /\ UNCHANGED <<db, store, nextId, files, created>>

\* the end of one loop iteration: the next entry, or the response
BulkAdvance(p, ids) ==
  LET l == local[p]
  IN IF l.i = Len(l.payload.students)
     THEN /\ pc' = [pc EXCEPT ![p] = "idle"]
          /\ local' = [local EXCEPT ![p] = Idle]
          /\ resp' = [op |-> "bulk", request |-> l.payload, status |-> 200,
                      inserted |-> ids]
          /\ created' =
               created \o [k \in 1..Len(ids) |->
                             [coll |-> "student", _id |-> ids[k],
                              request |-> l.payload.students[k]]]
     ELSE /\ local' = [local EXCEPT ![p].i = @ + 1, ![p].inserted_ids = ids]
          /\ UNCHANGED <<pc, resp, created>>

\* one iteration of the loop of add_students_bulk
AddStudentsBulkStep(p) ==
  /\ pc[p] = "bulk"
  /\ LET l == local[p]
     IN \/ /\ CreateDocumentOk("student", l.payload.students[l.i])
           /\ BulkAdvance(p, AppendId(l.inserted_ids, ObjectIdStr(nextId)))
        \/ /\ UNCHANGED <<store, nextId>>
           /\ IF BulkStopsOnError
              THEN /\ pc' = [pc EXCEPT ![p] = "idle"]
                   /\ local' = [local EXCEPT ![p] = Idle]
                   /\ resp' = InternalServerError("bulk", l.payload)
                   /\ UNCHANGED created
              ELSE BulkAdvance(p, l.inserted_ids)
  /\ UNCHANGED <<db, files>>

(* ------------------------------ uploads ------------------------------- *)
\* upload_file: the bytes go to UPLOAD_DIR/<filename>, then the Upload
\* document is created
UploadFile(doc) ==
  /\ files' = files \cup {doc.path}
  /\ \/ /\ CreateDocumentOk("upload", doc)
        /\ resp' = [op |-> "upload", request |-> doc, status |-> 200,
                    _id |-> ObjectIdStr(nextId), filename |-> doc.filename,
                    path |-> doc.path]
        /\ created' = Append(created, [coll |-> "upload", request |-> doc,
                                       _id |-> ObjectIdStr(nextId)])
     \/ /\ resp' = InternalServerError("upload", doc)
        /\ UNCHANGED <<store, nextId, created>>
  /\ UNCHANGED <<db, pc, local>>

(* --------------------------- health routes ---------------------------- *)
\* read_root
ReadRoot ==
  /\ resp' = [op |-> "read_root", status |-> 200,
              message |-> "School Management Backend is running"]
  /\ UNCHANGED <<db, store, nextId, files, pc, local, created>>

\* test_database: the names of the collections that hold documents
TestDatabase ==
  /\ resp' = [op |-> "test", status |-> 200,
              database |-> IF db # None THEN "Connected" ELSE "Not Connected",
              collections |-> IF db # None
                              THEN {c \in Collections : store[c] # <<>>}
                              ELSE {}]
  /\ UNCHANGED <<db, store, nextId, files, pc, local, created>>

(* ------------------------------- system ------------------------------- *)
Init ==
  /\ db \in {None, "db"}
  /\ store = [c \in Collections |-> <<>>]
  /\ nextId = 1
  /\ files = {}
  /\ pc = [p \in Procs |-> "idle"]
  /\ local = [p \in Procs |-> Idle]
  /\ resp = [op |-> "none"]
  /\ created = <<>>

\* POST /api/attendance/set and GET /api/attendance
NextAttendance ==
  \/ \E p \in Procs, payload \in AttendanceSet : SetAttendanceCall(p, payload)
  \/ \E p \in Procs : SetAttendanceUpsert(p)
  \/ \E date_value \in Dates : GetAttendance(date_value)

\* POST /api/students, POST /api/students/bulk and GET /api/students
NextStudents ==
  \/ \E body \in Student : CreateResource("student", body)
  \/ \E class_name \in QueryClassNames : ListStudents(class_name)
  \/ \E p \in Procs, payload \in BulkStudents : AddStudentsBulkCall(p, payload)
  \/ \E p \in Procs : AddStudentsBulkStep(p)

\* the create and list routes of the other collections, uploads, health
NextResources ==
  \/ \E coll \in DOMAIN CreateRoutes \ {"student"} :
       \E body \in CreateRoutes[coll] : CreateResource(coll, body)
  \/ \E coll \in FilteredRoutes, class_name \in QueryClassNames,
        subject \in QuerySubjects : ListFiltered(coll, class_name, subject)
  \/ \E coll \in UnfilteredRoutes : ListAll(coll)
  \/ \E doc \in Upload : UploadFile(doc)
  \/ ReadRoot
  \/ TestDatabase

Next == NextAttendance \/ NextStudents \/ NextResources

Spec == Init /\ [][Next]_vars

\* the routes of one collection family, running alone over the store
SpecAttendance == Init /\ [][NextAttendance]_vars

SpecStudents == Init /\ [][NextStudents]_vars

SpecResources == Init /\ [][NextResources]_vars
\* the attendance routes beside the note routes
NextLists ==
  \/ NextAttendance
  \/ \E body \in Note : CreateResource("note", body)
  \/ \E class_name \in QueryClassNames, subject \in QuerySubjects :
       ListFiltered("note", class_name, subject)

SpecLists == Init /\ [][NextLists]_vars

\* the routes that write: set_attendance beside two routes that insert
\* through create_document, add_student and upload_file
NextWrites ==
  \/ \E p \in Procs, payload \in AttendanceSet : SetAttendanceCall(p, payload)
  \/ \E p \in Procs : SetAttendanceUpsert(p)
  \/ \E body \in Student : CreateResource("student", body)
  \/ \E doc \in Upload : UploadFile(doc)

SpecWrites == Init /\ [][NextWrites]_vars

(* ============================ properties ============================== *)
\* the fields of a stored document other than its identifier
Fields(d) == [k \in DOMAIN d \ {"_id"} |-> d[k]]

Attendance == store["attendance"]

\* the attendance records of one (student_id, date) pair, by position
RecordsOf(st, student_id, date) ==
  {i \in 1..Len(st["attendance"]) :
     /\ st["attendance"][i].student_id = student_id
     /\ st["attendance"][i].date = date}

\* process p takes the update_one step of its set_attendance request
UpsertStep(p) == pc[p] = "upsert" /\ pc'[p] = "idle"

\* C1: whatever setAttendance calls ran, one after another or interleaved,
\* the attendance collection holds at most one record per (student_id, date).
C1_OneRecordPerPair ==
  \A student_id \in StudentIds, date \in Dates :
    Cardinality(RecordsOf(store, student_id, date)) <= 1

\* a second request for a pair is in flight while the pair's record, inserted
\* by the request that answered last, is in the collection
C1_Witness ==
  \E p \in Procs :
    /\ pc[p] = "upsert"
    /\ resp.op = "set_attendance" /\ resp.status = 200
    /\ resp.upserted_id # None
    /\ resp.request.student_id = local[p].payload.student_id
    /\ resp.request.date = local[p].payload.date
    /\ resp.request.status # local[p].payload.status
    /\ RecordsOf(store, resp.request.student_id, resp.request.date) # {}

\* C2: a setAttendance(S, D, S2) on a pair that an earlier call recorded
\* leaves exactly one record for (S, D), with status S2, and reports a match.
C2_SecondCallOverwrites ==
  [][\A p \in Procs :
       LET pl == local[p].payload
       IN (UpsertStep(p) /\ RecordsOf(store, pl.student_id, pl.date) # {}) =>
            /\ Cardinality(RecordsOf(store', pl.student_id, pl.date)) = 1
            /\ \A i \in RecordsOf(store', pl.student_id, pl.date) :
                 store'["attendance"][i].status = pl.status
            /\ resp'.op = "set_attendance"
            /\ resp'.request = pl
            /\ resp'.matched = 1]_vars

\* a second call changed the stored status
C2_Witness ==
  /\ resp.op = "set_attendance" /\ resp.status = 200
  /\ resp.matched = 1 /\ resp.modified = 1
  /\ \E i \in RecordsOf(store, resp.request.student_id, resp.request.date) :
       Attendance[i].status = resp.request.status

\* C3: on a pair without a record setAttendance reports matched = 0 and a
\* non-empty inserted identifier and creates the record; on a pair with a
\* record it reports no inserted identifier.
C3_FreshPairInserts ==
  [][\A p \in Procs :
       LET pl == local[p].payload
       IN UpsertStep(p) =>
            IF RecordsOf(store, pl.student_id, pl.date) = {}
            THEN /\ resp'.matched = 0
                 /\ resp'.upserted_id \notin {None, ""}
                 /\ Len(store'["attendance"]) = Len(Attendance) + 1
                 /\ \E i \in RecordsOf(store', pl.student_id, pl.date) :
                      /\ ObjectIdStr(store'["attendance"][i]._id)
                           = resp'.upserted_id
                      /\ Fields(store'["attendance"][i]) = pl
            ELSE resp'.upserted_id = None]_vars

\* the answer to a call on a fresh pair, and the record it created
C3_Witness ==
  /\ resp.op = "set_attendance" /\ resp.status = 200
  /\ resp.matched = 0 /\ resp.upserted_id # None
  /\ \E i \in RecordsOf(store, resp.request.student_id, resp.request.date) :
       ObjectIdStr(Attendance[i]._id) = resp.upserted_id

\* C4: without a connection setAttendance answers with the error response,
\* never reaches its store call, and the attendance collection stays as it was.
C4_NoConnectionFails ==
  db = None =>
    /\ \A p \in Procs : pc[p] # "upsert"
    /\ Attendance = <<>>
    /\ resp.op = "set_attendance" =>
         /\ resp.status = 500
         /\ resp.error = "Database not available"

\* a setAttendance request was answered without a connection
C4_Witness ==
  /\ db = None
  /\ resp.op = "set_attendance"
  /\ resp.status = 500

\* C9: repeating a call with the stored status leaves the store unchanged and
\* reports matched = 1, modified = 0, no inserted identifier; modified is 1
\* exactly when a record was matched and its status differed from the request.
C9_Idempotent ==
  [][\A p \in Procs :
       LET pl == local[p].payload
           hits == RecordsOf(store, pl.student_id, pl.date)
           same == \E i \in hits : Attendance[i].status = pl.status
           differs == \E i \in hits : Attendance[i].status # pl.status
       IN UpsertStep(p) =>
            /\ same => /\ store' = store
                       /\ resp'.matched = 1
                       /\ resp'.modified = 0
                       /\ resp'.upserted_id = None
            /\ resp'.modified = 1 <=> differs]_vars

\* a repeated call was answered: matched, not modified
C9_Witness ==
  /\ resp.op = "set_attendance" /\ resp.status = 200
  /\ resp.matched = 1 /\ resp.modified = 0
  /\ \E i \in RecordsOf(store, resp.request.student_id, resp.request.date) :
       Attendance[i].status = resp.request.status
\* the student records, and the position of the one with a given identifier
Students == store["student"]

PositionOf(st, coll, id) ==
  {i \in 1..Len(st[coll]) : ObjectIdStr(st[coll][i]._id) = id}

\* the response of the list route of a collection to a query
ListResult(coll, class_name, subject) ==
  CASE coll = "student" -> ListStudentsResult(class_name)
    [] coll \in FilteredRoutes -> ListFilteredResult(coll, class_name, subject)
    [] coll \in UnfilteredRoutes -> ListAllResult(coll)

\* the query's filter matches a record: every parameter the route takes and
\* the caller gives equals the record's field
QueryMatches(coll, class_name, subject, record) ==
  /\ (coll \in FilteredRoutes \cup {"student"} /\ class_name # None)
       => record.class_name = class_name
  /\ (coll \in FilteredRoutes /\ subject # None) => record.subject = subject

\* C5: after any history of creations, listing the collection of a created
\* resource with a filter that matches it returns a record with the input's
\* fields and the identifier create returned, and that identifier differs
\* from the identifier of every earlier creation.
C5_CreateThenList ==
  \A n \in 1..Len(created) :
    LET cr == created[n]
    IN /\ \A m \in 1..(n - 1) : created[m]._id # cr._id
       /\ \A class_name \in QueryClassNames, subject \in QuerySubjects :
            QueryMatches(cr.coll, class_name, subject, cr.request) =>
              LET r == ListResult(cr.coll, class_name, subject)
              IN /\ r.status = 200
                 /\ \E k \in 1..Len(r.docs) :
                      /\ r.docs[k]._id = cr._id
                      /\ Fields(r.docs[k]) = cr.request

\* the second of two created students is in the answer to a listing by its
\* class
C5_Witness ==
  /\ Len(created) >= 2
  /\ resp.op = "list" /\ resp.coll = "student"
  /\ resp.request.class_name = created[2].request.class_name
  /\ \E k \in 1..Len(resp.docs) :
       /\ resp.docs[k]._id = created[2]._id
       /\ Fields(resp.docs[k]) = created[2].request

\* process p runs one iteration of the loop of its bulk request
BulkStep(p) ==
  pc[p] = "bulk" /\ (pc'[p] # pc[p] \/ local'[p] # local[p])

\* the answer to a bulk request: one identifier per entry, pairwise distinct,
\* the k-th identifier that of a record with the k-th entry's fields, and
\* the records in the order of the entries
BulkAnswer ==
  (resp.op = "bulk" /\ resp.status = 200) =>
    LET entries == resp.request.students
        ids == resp.inserted
    IN /\ Len(ids) = Len(entries)
       /\ \A j, k \in 1..Len(ids) : ids[j] = ids[k] => j = k
       /\ \A k \in 1..Len(ids) :
            /\ Cardinality(PositionOf(store, "student", ids[k])) = 1
            /\ \A i \in PositionOf(store, "student", ids[k]) :
                 Fields(Students[i]) = entries[k]
       /\ \A j, k \in 1..Len(ids) :
            j < k => \A a \in PositionOf(store, "student", ids[j]),
                        b \in PositionOf(store, "student", ids[k]) : a < b

\* C7: a bulk creation of N entries returns exactly N identifiers, pairwise
\* distinct and in the order of the entries, and adds exactly N records: each
\* iteration that yields an identifier adds one record, and the answer has
\* one identifier per entry.
C7_BulkReturnsNIds ==
  [][/\ BulkAnswer'
     /\ \A p \in Procs :
          (BulkStep(p) /\ ~(pc'[p] = "idle" /\ resp'.status = 500)) =>
            LET ids == IF pc'[p] = "bulk" THEN local'[p].inserted_ids
                       ELSE resp'.inserted
            IN /\ Len(local[p].inserted_ids) = local[p].i - 1
               /\ Len(ids) = local[p].i
               /\ Len(store'["student"]) = Len(Students) + 1]_vars

\* a bulk request of two entries was answered with two identifiers
C7_Witness ==
  /\ resp.op = "bulk" /\ resp.status = 200
  /\ Len(resp.request.students) = 2
  /\ Len(resp.inserted) = 2
  /\ resp.request.students[1] # resp.request.students[2]

\* C10: when the insert of the k-th entry of a bulk request fails, the k-1
\* records inserted before it remain, the request ends there with an error
\* and without the identifiers, and no later entry is inserted.
C10_BulkBestEffort ==
  [][\A p \in Procs :
       (BulkStep(p) /\ store' = store) =>
         LET l == local[p]
         IN /\ pc'[p] = "idle"
            /\ resp'.op = "bulk" /\ resp'.request = l.payload
            /\ resp'.status = 500
            /\ "inserted" \notin DOMAIN resp'
            /\ Len(l.inserted_ids) = l.i - 1
            /\ \A j \in 1..(l.i - 1) :
                 \E a \in PositionOf(store', "student", l.inserted_ids[j]) :
                   Fields(store'["student"][a]) = l.payload.students[j]]_vars

\* a bulk request ended in an error after some of its entries were inserted:
\* a student record that no answered creation accounts for
C10_Witness ==
  /\ resp.op = "bulk" /\ resp.status = 500
  /\ \A p \in Procs : pc[p] = "idle"
  /\ \E i \in 1..Len(Students) :
       \A n \in 1..Len(created) :
         created[n]._id # ObjectIdStr(Students[i]._id)
\* a document of a collection satisfies a list query: the parameters the
\* route turns into its filter equal the document's fields
Satisfies(coll, class_name, subject, d) ==
  /\ (coll \in FilteredRoutes \cup {"student"} /\ Truthy(class_name))
       => ("class_name" \in DOMAIN d /\ d.class_name = class_name)
  /\ (coll \in FilteredRoutes /\ Truthy(subject))
       => ("subject" \in DOMAIN d /\ d.subject = subject)

\* a list response that is no error and is the empty sequence when nothing
\* can be returned
EmptyNotError(r, nothing) ==
  /\ r.status = 200
  /\ "error" \notin DOMAIN r
  /\ nothing => r.docs = <<>>

\* C6: a list operation never ends in an error; without a connection, on an
\* empty collection or with a filter no record matches it returns the empty
\* sequence.  GET /api/attendance is one of the list operations.
C6_ListNeverFails ==
  /\ \A coll \in FilteredRoutes \cup UnfilteredRoutes \cup {"student"},
        class_name \in QueryClassNames, subject \in QuerySubjects :
       EmptyNotError(
         ListResult(coll, class_name, subject),
         \/ db = None
         \/ \A i \in 1..Len(store[coll]) :
              ~Satisfies(coll, class_name, subject, store[coll][i]))
  /\ \A date_value \in Dates :
       EmptyNotError(
         GetAttendanceResult(date_value),
         \/ db = None
         \/ \A i \in 1..Len(Attendance) : Attendance[i].date # date_value)
  /\ resp.op \in {"list", "get_attendance"} => resp.status = 200

\* GET /api/attendance was answered without a connection
C6_Witness ==
  /\ db = None
  /\ resp.op = "get_attendance"
  /\ resp.status = 200
  /\ resp.docs = <<>>

\* C8: a record, once stored, stays in its collection at its place with its
\* identifier; the only record a step changes is the attendance record of the
\* (student_id, date) a set_attendance request targets, and only its status.
C8_RecordsPersist ==
  [][\A coll \in Collections :
       /\ Len(store'[coll]) >= Len(store[coll])
       /\ \A i \in 1..Len(store[coll]) :
            LET old == store[coll][i]
                new == store'[coll][i]
            IN /\ new._id = old._id
               /\ new # old =>
                    /\ coll = "attendance"
                    /\ \E p \in Procs :
                         LET pl == local[p].payload
                         IN /\ UpsertStep(p)
                            /\ Matches(old, [student_id |-> pl.student_id,
                                             date |-> pl.date])
                            /\ DOMAIN new = DOMAIN old
                            /\ new.status = pl.status
                            /\ \A k \in DOMAIN old \ {"status"} :
                                 new[k] = old[k]]_vars

\* a set_attendance request changed the status of its record while another
\* record was in the store
C8_Witness ==
  /\ resp.op = "set_attendance" /\ resp.status = 200
  /\ resp.modified = 1
  /\ \E coll \in Collections :
       \E i \in 1..Len(store[coll]) :
         Fields(store[coll][i]) # resp.request
====
